---- MODULE Spec2Model ----
(***************************************************************************)
(* Model of version_bump.py: the image-reference matcher/rewriter          *)
(* (process_image, find_image_containers) and the bump command that drives *)
(* it.                                                                     *)
(*                                                                         *)
(* A Python string is a sequence of tokens.  A token is either one of the  *)
(* characters the code inspects (":", "/", " ", ",", "[", "]", "'", "Q"    *)
(* for the double quote) or a run of other characters ("app", "reg.io",    *)
(* "1.0.0").  The strings of the model never hold two adjacent runs, so    *)
(* equal Python strings are equal sequences.                               *)
(*                                                                         *)
(* A YAML node is a record [kind, str, items]: kind "str" carries the      *)
(* string, kinds "map" and "seq" carry items, a sequence of [key, val] in  *)
(* insertion order (a sequence's elements all have the key "-").           *)
(***************************************************************************)
EXTENDS Naturals, Sequences, FiniteSets

VARIABLES
    pc,             \* position of the program
    values_map,     \* the in-memory values tree
    images,         \* the target image identifiers
    version,        \* the version handed to find_image_containers
    found,          \* tally of the last walk
    updated,        \* tally of the last walk
    log,            \* history: one entry per process_image call of the last walk
    calls,          \* history: paths find_image_containers was called on, last walk
    prev,           \* history: the tree as it was when the last walk started
    runs,           \* history: number of walks started
    opts,           \* bump: the command line options
    chart_version,  \* bump: local chart_version
    app_version,    \* bump: local app_version
    image_version,  \* bump: local image_version
    chart_map,      \* bump: the loaded chart document
    chart_file,     \* bump: Chart.yaml on disk
    values_file,    \* bump: values.yaml on disk
    release_found,  \* bump: local release_found
    error,          \* bump: the exception bump ended with, "" when none
    saves           \* history: the files save_yaml_file wrote, in order

vars == <<pc, values_map, images, version, found, updated, log, calls, prev, runs,
          opts, chart_version, app_version, image_version, chart_map, chart_file,
          values_file, release_found, error, saves>>

(***************************************************************************)
(* Bounds                                                                  *)
(***************************************************************************)
MaxDepth == 2
MaxRuns == 2

(***************************************************************************)
(* class ImageTag, plus the outcome of a call that raised                  *)
(***************************************************************************)
NotFound == "NotFound"
Found == "Found"
Updated == "Updated"
Raised == "ValueError"

(***************************************************************************)
(* Strings                                                                 *)
(***************************************************************************)
Max(S) == CHOOSE x \in S : \A y \in S : y <= x

\* str.rstrip('/')
RStripChar(s, c) ==
    LET keep == {i \in 1..Len(s) : s[i] # c}
    IN  IF keep = {} THEN <<>> ELSE SubSeq(s, 1, Max(keep))

\* str.lstrip(c)
LStripChar(s, c) ==
    LET keep == {i \in 1..Len(s) : s[i] # c}
    IN  IF keep = {} THEN <<>>
        ELSE SubSeq(s, CHOOSE i \in keep : \A j \in keep : i <= j, Len(s))

\* str.strip(): whitespace off both ends
strip(s) == LStripChar(RStripChar(s, " "), " ")

\* str.replace(c, '')
RECURSIVE RemoveChar(_, _)
RemoveChar(s, c) ==
    IF s = <<>> THEN <<>>
    ELSE IF Head(s) = c THEN RemoveChar(Tail(s), c)
    ELSE <<Head(s)>> \o RemoveChar(Tail(s), c)

\* str.rsplit(':', 1): a list of one or two strings
rsplit(s) ==
    LET at == {i \in 1..Len(s) : s[i] = ":"}
    IN  IF at = {} THEN <<s>>
        ELSE <<SubSeq(s, 1, Max(at) - 1), SubSeq(s, Max(at) + 1, Len(s))>>

\* str.split(","): never an empty list
RECURSIVE split(_)
split(s) ==
    LET at == {i \in 1..Len(s) : s[i] = ","}
    IN  IF at = {} THEN <<s>>
        ELSE Append(split(SubSeq(s, 1, Max(at) - 1)), SubSeq(s, Max(at) + 1, Len(s)))

\* "/".join(map(lambda x: str(x).rstrip('/'), args))
RECURSIVE urljoin(_)
urljoin(args) ==
    IF Len(args) = 0 THEN <<>>
    ELSE IF Len(args) = 1 THEN RStripChar(args[1], "/")
    ELSE urljoin(SubSeq(args, 1, Len(args) - 1)) \o <<"/">> \o RStripChar(args[Len(args)], "/")

(***************************************************************************)
(* YAML nodes and dict access                                              *)
(***************************************************************************)
Str(s) == [kind |-> "str", str |-> s, items |-> <<>>]
Map(items) == [kind |-> "map", str |-> <<>>, items |-> items]
List(items) == [kind |-> "seq", str |-> <<>>, items |-> items]
KV(k, v) == [key |-> k, val |-> v]
\* Python's None, where a value may be a string or None
None == [kind |-> "none", str |-> <<>>, items |-> <<>>]

\* key in values
HasKey(values, key) == \E i \in 1..Len(values.items) : values.items[i].key = key

\* values[key]
Get(values, key) ==
    values.items[CHOOSE i \in 1..Len(values.items) : values.items[i].key = key].val

\* values[key] = val: an existing key keeps its place, a new key goes last
SetKey(values, key, val) ==
    IF HasKey(values, key)
    THEN [values EXCEPT !.items =
            [i \in 1..Len(values.items) |->
                IF values.items[i].key = key THEN KV(key, val) ELSE values.items[i]]]
    ELSE [values EXCEPT !.items = Append(values.items, KV(key, val))]

(***************************************************************************)
(* The shape predicates                                                    *)
(***************************************************************************)
\* valid_string without the test for the empty string
valid_string_any(value) == value.kind = "str"

valid_string(value) == value.kind = "str" /\ value.str # <<>>

has_image(values) == HasKey(values, "image") /\ valid_string(Get(values, "image"))

has_repository(values) ==
    HasKey(values, "repository") /\ valid_string(Get(values, "repository"))

has_registry(values) ==
    HasKey(values, "registry") /\ valid_string(Get(values, "registry"))

has_tag(values) == HasKey(values, "tag") /\ valid_string(Get(values, "tag"))

image_only(values) ==
    has_image(values) /\ ~has_tag(values) /\ ~has_registry(values)

repository_only(values) ==
    has_repository(values) /\ ~has_tag(values) /\ ~has_registry(values)

image_tag(values) ==
    has_image(values) /\ has_tag(values) /\ ~has_registry(values)

repository_tag(values) ==
    has_repository(values) /\ has_tag(values) /\ ~has_registry(values)

repository_registry(values) ==
    has_repository(values) /\ has_registry(values) /\ ~has_tag(values)

all_defined(values) ==
    has_repository(values) /\ has_tag(values) /\ has_registry(values)

(***************************************************************************)
(* process_image: [state, values], values being the dict after the call    *)
(***************************************************************************)
Outcome(state, values) == [state |-> state, values |-> values]

\* the branches that unpack [image, tag] = values[key].rsplit(':', 1)
SplitBranch(values, key, withRegistry, targets, ver) ==
    LET parts == rsplit(Get(values, key).str)
    IN  IF Len(parts) # 2 THEN Outcome(Raised, values)
        ELSE LET base == parts[1]
                 tag == parts[2]
                 image == IF withRegistry
                          THEN urljoin(<<Get(values, "registry").str, base>>)
                          ELSE base
             IN  IF image \in targets
                 THEN IF strip(tag) = ver
                      THEN Outcome(Found, values)
                      ELSE Outcome(Updated,
                                   SetKey(values, key, Str(base \o <<":">> \o ver)))
                 ELSE Outcome(NotFound, values)

\* TagBranch comparing the tag as written, whitespace included
TagBranch_unstripped(values, image, targets, ver) ==
    IF image \in targets
    THEN IF Get(values, "tag").str = ver
         THEN [state |-> Found, values |-> values]
         ELSE [state |-> Updated, values |-> SetKey(values, "tag", Str(ver))]
    ELSE [state |-> NotFound, values |-> values]

\* the branches that compare and set values['tag']
TagBranch(values, image, targets, ver) ==
    IF image \in targets
    THEN IF strip(Get(values, "tag").str) = ver
         THEN Outcome(Found, values)
         ELSE Outcome(Updated, SetKey(values, "tag", Str(ver)))
    ELSE Outcome(NotFound, values)

process_image(values, targets, ver) ==
    IF image_only(values) THEN SplitBranch(values, "image", FALSE, targets, ver)
    ELSE IF repository_only(values)
    THEN SplitBranch(values, "repository", FALSE, targets, ver)
    ELSE IF all_defined(values)
    THEN TagBranch(values,
                   urljoin(<<Get(values, "registry").str, Get(values, "repository").str>>),
                   targets, ver)
    ELSE IF image_tag(values) THEN TagBranch(values, Get(values, "image").str, targets, ver)
    ELSE IF repository_tag(values)
    THEN TagBranch(values, Get(values, "repository").str, targets, ver)
    ELSE IF repository_registry(values)
    THEN SplitBranch(values, "repository", TRUE, targets, ver)
    ELSE Outcome(NotFound, values)

\* process_count counting a Found as an update too
process_count_both(state, f, u) ==
    IF state = Updated \/ state = Found THEN <<f + 1, u + 1>> ELSE <<f, u>>

process_count(state, f, u) ==
    IF state = Updated THEN <<f + 1, u + 1>>
    ELSE IF state = Found THEN <<f + 1, u>>
    ELSE <<f, u>>

(***************************************************************************)
(* find_image_containers.  The walk state threads the (mutated) dict, the  *)
(* tally, the two histories and whether an exception is propagating.       *)
(***************************************************************************)
Entry(path, via, before, r) ==
    [path |-> path, via |-> via, before |-> before, state |-> r.state, after |-> r.values]

Walked(values, f, u, lg, cl, raised) ==
    [values |-> values, found |-> f, updated |-> u, log |-> lg, calls |-> cl,
     raised |-> raised]

\* the item values.items[i] replaced by the dict the recursive call left
SetAt(values, i, val) ==
    [values EXCEPT !.items = [values.items EXCEPT ![i] = KV(values.items[i].key, val)]]

\* the loop entering sequences as well as dicts
Enters_sequences(item) == item.val.kind \in {"map", "seq"}

\* does the loop over values.items() enter this item
Enters(item) == item.val.kind = "map"

RECURSIVE find_image_containers(_, _, _, _, _, _, _, _)
RECURSIVE ItemsLoop(_, _, _, _, _)

\* for key, item in values.items(): from item i on
ItemsLoop(w, i, targets, ver, path) ==
    IF i > Len(w.values.items) THEN w
    ELSE LET item == w.values.items[i]
         IN  IF Enters(item)
             THEN LET r == find_image_containers(item.val, targets, ver, w.found,
                                                 w.updated, Append(path, item.key),
                                                 w.log, w.calls)
                      w2 == [r EXCEPT !.values = SetAt(w.values, i, r.values)]
                  IN  IF r.raised THEN w2 ELSE ItemsLoop(w2, i + 1, targets, ver, path)
             ELSE ItemsLoop(w, i + 1, targets, ver, path)

\* the isinstance(values['image'], dict) branch
NestedImage(values, targets, ver, f, u, path, lg, cl) ==
    LET inner == Get(values, "image")
        r == process_image(inner, targets, ver)
        c == process_count(r.state, f, u)
    IN  Walked(SetKey(values, "image", r.values), c[1], c[2],
               Append(lg, Entry(Append(path, "image"), "nested", inner, r)), cl,
               r.state = Raised)

find_image_containers(values, targets, ver, f, u, path, lg, cl) ==
    LET cl2 == Append(cl, path)
    IN  IF HasKey(values, "image") /\ Get(values, "image").kind = "str"
        THEN LET r == process_image(values, targets, ver)
                 c == process_count(r.state, f, u)
             IN  Walked(r.values, c[1], c[2], Append(lg, Entry(path, "self", values, r)),
                        cl2, r.state = Raised)
        ELSE LET w == IF HasKey(values, "image") /\ Get(values, "image").kind = "map"
                      THEN NestedImage(values, targets, ver, f, u, path, lg, cl2)
                      ELSE Walked(values, f, u, lg, cl2, FALSE)
             IN  IF w.raised THEN w ELSE ItemsLoop(w, 1, targets, ver, path)

(***************************************************************************)
(* Inputs of the walker                                                    *)
(***************************************************************************)
\* values of an `image` or `repository` key; <<>> is the empty string
RefStrs ==
    { <<>>, <<"app">>, <<"app", ":", "1.0">>, <<"app", ":", "2.0", " ">>,
      <<"app", ":", "rc", ":", "1.0">> }

RegistryStrs == { <<>>, <<"reg.io">>, <<"reg.io", "/">> }

TagStrs == { <<>>, <<"1.0">>, <<" ", "2.0", " ">> }

TargetSets ==
    { {<<"app">>}, {<<"app", ":", "rc">>}, {<<"reg.io", "/", "app">>},
      {<<"app">>, <<"app", ":", "rc">>}, {<<"app">>, <<"reg.io", "/", "app">>} }

Versions == { <<>>, <<"1.0">>, <<"2.0">>, <<" ", "2.0">>, <<"rc", ":", "2.0">> }

\* an optional key: absent, or present with one of the strings
Opt(key, strs) == {<<>>} \cup {<<KV(key, Str(s))>> : s \in strs}

\* every dict over the four attribute keys
Leaves ==
    { Map(i \o r \o g \o t) :
        i \in Opt("image", RefStrs), r \in Opt("repository", RefStrs),
        g \in Opt("registry", RegistryStrs), t \in Opt("tag", TagStrs) }

\* the dicts the nested documents are built from
SmallLeaves ==
    { Map(<<KV("image", Str(<<"app", ":", "1.0">>))>>),
      Map(<<KV("image", Str(<<"app">>))>>),
      Map(<<KV("image", Str(<<"app">>)), KV("tag", Str(<<"1.0">>))>>),
      Map(<<KV("image", Str(<<"app", ":", "rc">>)), KV("tag", Str(<<"1.0">>))>>),
      Map(<<KV("repository", Str(<<"app", ":", "1.0">>))>>),
      Map(<<KV("repository", Str(<<"app">>)), KV("tag", Str(<<"2.0">>)),
            KV("registry", Str(<<"reg.io", "/">>))>>),
      Map(<<KV("repository", Str(<<"app">>)), KV("registry", Str(<<"reg.io">>))>>),
      Map(<<KV("name", Str(<<"app", ":", "1.0">>))>>) }

\* one more level around a document t
Wrap(t) ==
    { Map(<<KV("image", t)>>),
      Map(<<KV("sub", t)>>),
      Map(<<KV("image", Str(<<"app", ":", "1.0">>)), KV("sub", t)>>),
      Map(<<KV("name", Str(<<"app">>)),
            KV("image", Map(<<KV("repository", Str(<<"app", ":", "1.0">>))>>)),
            KV("sub", t)>>),
      Map(<<KV("list", List(<<KV("-", t)>>))>>),
      Map(<<KV("a", t), KV("b", t)>>) }

RECURSIVE Nested(_)
Nested(d) ==
    IF d = 0 THEN SmallLeaves
    ELSE LET below == Nested(d - 1) IN below \cup UNION {Wrap(t) : t \in below}

Trees == Leaves \cup {Map(<<KV("image", l)>>) : l \in Leaves} \cup Nested(MaxDepth)

(***************************************************************************)
(* The walker on its own: find_image_containers(values, images, version)   *)
(* called MaxRuns times in succession on the same tree.                    *)
(***************************************************************************)
NoOpts == [working_dir |-> "."]

Init ==
    /\ values_map \in Trees
    /\ images \in TargetSets
    /\ version \in Versions
    /\ pc = "ready"
    /\ found = 0
    /\ updated = 0
    /\ log = <<>>
    /\ calls = <<>>
    /\ prev = values_map
    /\ runs = 0
    /\ opts = NoOpts
    /\ chart_version = None
    /\ app_version = None
    /\ image_version = None
    /\ chart_map = Map(<<>>)
    /\ chart_file = Map(<<>>)
    /\ values_file = values_map
    /\ release_found = FALSE
    /\ error = ""
    /\ saves = <<>>

Walk ==
    /\ pc \in {"ready", "walked"}
    /\ runs < MaxRuns
    /\ LET w == find_image_containers(values_map, images, version, 0, 0, <<>>, <<>>, <<>>)
       IN  /\ values_map' = w.values
           /\ found' = w.found
           /\ updated' = w.updated
           /\ log' = w.log
           /\ calls' = w.calls
           /\ pc' = IF w.raised THEN "raised" ELSE "walked"
    /\ prev' = values_map
    /\ runs' = runs + 1
    /\ UNCHANGED <<images, version, opts, chart_version, app_version, image_version,
                   chart_map, chart_file, values_file, release_found, error, saves>>

Next == Walk

Spec == Init /\ [][Next]_vars

(***************************************************************************)
(* bump                                                                    *)
(***************************************************************************)
\* truth value of an option: None and "" are false
Truthy(value) == value.kind = "str" /\ value.str # <<>>

\* <option>_file.readline().decode().strip()
ReadLine(file) == Str(strip(file.str))

\* dict.get(key, None)
GetOrNone(values, key) == IF HasKey(values, key) THEN Get(values, key) ELSE None

Range(seq) == {seq[i] : i \in 1..Len(seq)}

\* image.lstrip("[").rstrip("]").replace('"','').replace("'",'').split(",")
ParseImages(image) ==
    split(RemoveChar(RemoveChar(RStripChar(LStripChar(image, "["), "]"), "Q"), "'"))

Fail(exception) ==
    /\ pc' = "failed"
    /\ error' = exception

\* lines 205-212
ResolveChartVersion ==
    /\ pc = "chart_version"
    /\ LET read == ~opts.skip_chart_version /\ ~Truthy(chart_version)
                   /\ opts.chart_version_file # None
           v == IF read THEN ReadLine(opts.chart_version_file) ELSE chart_version
       IN  /\ chart_version' = v
           /\ IF ~opts.skip_chart_version /\ ~valid_string(v) /\ opts.error_no_chart_version
              THEN Fail("MissingParameter: chart-version")
              ELSE pc' = "app_version" /\ error' = error
    /\ UNCHANGED <<values_map, images, version, found, updated, log, calls, prev, runs,
                   opts, app_version, image_version, chart_map, chart_file, values_file,
                   release_found, saves>>

\* lines 214-221
ResolveAppVersion ==
    /\ pc = "app_version"
    /\ LET read == ~opts.skip_app_version /\ ~Truthy(app_version)
                   /\ opts.app_version_file # None
           v == IF read THEN ReadLine(opts.app_version_file) ELSE app_version
       IN  /\ app_version' = v
           /\ IF ~opts.skip_app_version /\ ~valid_string(v) /\ opts.error_no_app_version
              THEN Fail("MissingParameter: app-version")
              ELSE pc' = "images" /\ error' = error
    /\ UNCHANGED <<values_map, images, version, found, updated, log, calls, prev, runs,
                   opts, chart_version, image_version, chart_map, chart_file, values_file,
                   release_found, saves>>

\* lines 223-237
ResolveImages ==
    /\ pc = "images"
    /\ IF opts.image # None
       THEN LET parsed == ParseImages(opts.image.str)
                read == ~Truthy(image_version) /\ opts.image_version_file # None
                v == IF read THEN ReadLine(opts.image_version_file) ELSE image_version
            IN  /\ images' = Range(parsed)
                /\ IF Len(parsed) = 0
                   THEN /\ Fail("BadParameter: No valid images specified")
                        /\ image_version' = image_version
                   ELSE /\ image_version' = v
                        /\ IF ~valid_string(v) /\ opts.error_no_image_version
                           THEN Fail("MissingParameter: image-version")
                           ELSE pc' = "chart" /\ error' = error
       ELSE /\ pc' = "chart"
            /\ UNCHANGED <<images, image_version, error>>
    /\ UNCHANGED <<values_map, version, found, updated, log, calls, prev, runs, opts,
                   chart_version, app_version, chart_map, chart_file, values_file,
                   release_found, saves>>

\* lines 250-256 and 258-264: one field of the chart document
PatchField(doc, key, wanted) ==
    IF Truthy(wanted) /\ wanted # GetOrNone(doc, key) THEN SetKey(doc, key, wanted) ELSE doc

\* lines 243-269
ChartPhase ==
    /\ pc = "chart"
    /\ IF Truthy(chart_version) \/ Truthy(app_version)
       THEN LET loaded == chart_file
                patched == PatchField(PatchField(loaded, "version", chart_version),
                                      "appVersion", app_version)
                changed == patched # loaded
            IN  /\ chart_map' = patched
                /\ chart_file' = IF changed THEN patched ELSE chart_file
                /\ saves' = IF changed THEN Append(saves, "chart") ELSE saves
                /\ release_found' = changed
       ELSE /\ release_found' = FALSE
            /\ UNCHANGED <<chart_map, chart_file, saves>>
    /\ pc' = "values"
    /\ UNCHANGED <<values_map, images, version, found, updated, log, calls, prev, runs,
                   opts, chart_version, app_version, image_version, values_file, error>>

\* lines 271-291
ValuesPhase ==
    /\ pc = "values"
    /\ IF Truthy(opts.image)
       THEN IF image_version = None
            THEN \* image_version.strip() on None
                 /\ Fail("AttributeError")
                 /\ values_map' = values_file
                 /\ UNCHANGED <<version, found, updated, log, calls, prev, runs,
                                release_found, values_file, saves>>
            ELSE LET ver == strip(image_version.str)
                     w == find_image_containers(values_file, images, ver, 0, 0,
                                                <<>>, <<>>, <<>>)
                 IN  /\ version' = ver
                     /\ prev' = values_file
                     /\ runs' = runs + 1
                     /\ values_map' = w.values
                     /\ found' = w.found
                     /\ updated' = w.updated
                     /\ log' = w.log
                     /\ calls' = w.calls
                     /\ IF w.raised
                        THEN /\ Fail(Raised)
                             /\ UNCHANGED <<release_found, values_file, saves>>
                        ELSE IF w.updated > 0
                        THEN /\ release_found' = TRUE
                             /\ values_file' = w.values
                             /\ saves' = Append(saves, "values")
                             /\ pc' = "release"
                             /\ error' = error
                        ELSE IF w.found > 0
                        THEN /\ pc' = "release"
                             /\ UNCHANGED <<release_found, values_file, saves, error>>
                        ELSE /\ IF opts.error_no_tags
                                THEN Fail("BadParameter: no image tags found")
                                ELSE pc' = "release" /\ error' = error
                             /\ UNCHANGED <<release_found, values_file, saves>>
       ELSE /\ pc' = "release"
            /\ UNCHANGED <<values_map, version, found, updated, log, calls, prev, runs,
                           release_found, values_file, saves, error>>
    /\ UNCHANGED <<images, opts, chart_version, app_version, image_version, chart_map,
                   chart_file>>

\* the release check without the test of release_found
ReleaseCheck_unconditional ==
    /\ pc = "release"
    /\ IF opts.error_no_release
       THEN /\ pc' = "failed"
            /\ error' = "BadParameter: no changes found in chart, app or image versions"
       ELSE pc' = "done" /\ error' = error
    /\ UNCHANGED <<values_map, images, version, found, updated, log, calls, prev, runs,
                   opts, chart_version, app_version, image_version, chart_map, chart_file,
                   values_file, release_found, saves>>

\* lines 293-294
ReleaseCheck ==
    /\ pc = "release"
    /\ IF opts.error_no_release /\ ~release_found
       THEN Fail("BadParameter: no changes found in chart, app or image versions")
       ELSE pc' = "done" /\ error' = error
    /\ UNCHANGED <<values_map, images, version, found, updated, log, calls, prev, runs,
                   opts, chart_version, app_version, image_version, chart_map, chart_file,
                   values_file, release_found, saves>>

(***************************************************************************)
(* Inputs of bump                                                          *)
(***************************************************************************)
OptVersions == {None, Str(<<"2.0">>)}
OptVersionFiles == {None, Str(<<" ", "2.0", " ">>)}

ImageOptions ==
    { None, Str(<<>>), Str(<<"app">>),
      Str(<<"[", "Q", "app", "Q", ",", "'", "reg.io", "/", "app", "'", "]">>) }

ImageVersions == {None, Str(<<>>), Str(<<"2.0">>)}

ChartFiles ==
    { Map(<<KV("name", Str(<<"app">>)), KV("version", Str(<<"1.0">>)),
            KV("appVersion", Str(<<"2.0">>))>>),
      Map(<<KV("name", Str(<<"app">>)), KV("version", Str(<<"2.0">>))>>) }

ValuesFiles ==
    { Map(<<KV("app", Map(<<KV("image", Map(<<KV("repository", Str(<<"app">>)),
                                             KV("tag", Str(<<"1.0">>))>>))>>))>>),
      Map(<<KV("image", Str(<<"app", ":", "2.0">>))>>),
      Map(<<KV("name", Str(<<"app">>))>>),
      Map(<<KV("image", Map(<<KV("repository", Str(<<"app">>)),
                              KV("registry", Str(<<"reg.io">>))>>))>>) }

Options ==
    [ working_dir : {"."},
      skip_chart_version : BOOLEAN, chart_version : OptVersions,
      chart_version_file : OptVersionFiles, error_no_chart_version : BOOLEAN,
      skip_app_version : BOOLEAN, app_version : OptVersions,
      app_version_file : {None}, error_no_app_version : BOOLEAN,
      image : ImageOptions, image_version : ImageVersions,
      image_version_file : OptVersionFiles, error_no_image_version : BOOLEAN,
      error_no_release : BOOLEAN, error_no_tags : BOOLEAN ]

BumpInit ==
    /\ opts \in Options
    /\ chart_file \in ChartFiles
    /\ values_file \in ValuesFiles
    /\ pc = "chart_version"
    /\ chart_version = opts.chart_version
    /\ app_version = opts.app_version
    /\ image_version = opts.image_version
    /\ images = {}
    /\ version = <<>>
    /\ values_map = Map(<<>>)
    /\ chart_map = Map(<<>>)
    /\ found = 0
    /\ updated = 0
    /\ log = <<>>
    /\ calls = <<>>
    /\ prev = Map(<<>>)
    /\ runs = 0
    /\ release_found = FALSE
    /\ error = ""
    /\ saves = <<>>

BumpNext ==
    \/ ResolveChartVersion
    \/ ResolveAppVersion
    \/ ResolveImages
    \/ ChartPhase
    \/ ValuesPhase
    \/ ReleaseCheck

BumpSpec == BumpInit /\ [][BumpNext]_vars

(***************************************************************************)
(* Vocabulary of the properties                                            *)
(***************************************************************************)
Entries == {log[i] : i \in 1..Len(log)}

\* a walk has been made and returned
Returned == runs >= 1 /\ pc \in {"walked", "release", "done"}

\* an attribute is present: the key exists and holds a non-empty string
Present(node, key) ==
    \E j \in 1..Len(node.items) :
        /\ node.items[j].key = key
        /\ node.items[j].val.kind = "str"
        /\ node.items[j].val.str # <<>>

\* the rows of the shape table, each constraining the attributes it names
RowImageOnly(n) == Present(n, "image") /\ ~Present(n, "tag") /\ ~Present(n, "registry")
RowRepositoryOnly(n) ==
    Present(n, "repository") /\ ~Present(n, "tag") /\ ~Present(n, "registry")
RowImageTag(n) == Present(n, "image") /\ Present(n, "tag") /\ ~Present(n, "registry")
RowRepositoryTag(n) ==
    Present(n, "repository") /\ Present(n, "tag") /\ ~Present(n, "registry")
RowRepositoryRegistry(n) ==
    Present(n, "repository") /\ Present(n, "registry") /\ ~Present(n, "tag")
RowAll(n) == Present(n, "repository") /\ Present(n, "tag") /\ Present(n, "registry")

\* the first row of the table a node matches, "none" when it matches no row
Shape(n) ==
    IF RowImageOnly(n) THEN "image-only"
    ELSE IF RowRepositoryOnly(n) THEN "repository-only"
    ELSE IF RowImageTag(n) THEN "image+tag"
    ELSE IF RowRepositoryTag(n) THEN "repository+tag"
    ELSE IF RowRepositoryRegistry(n) THEN "repository+registry"
    ELSE IF RowAll(n) THEN "repository+tag+registry"
    ELSE "none"

HasColon(s) == \E i \in 1..Len(s) : s[i] = ":"

\* base and tag of the split rule: the part before the last ':' and the part after
\* it; a string without ':' is all base and has the empty tag
BaseOf(s) == IF HasColon(s) THEN rsplit(s)[1] ELSE s
TagOf(s) == IF HasColon(s) THEN rsplit(s)[2] ELSE <<>>

\* the join rule on two segments
Joined(a, b) == RStripChar(a, "/") \o <<"/">> \o RStripChar(b, "/")

\* node `after` is node `before` with the string under `key` replaced by s and
\* nothing else touched: same keys in the same order, same other values
OnlyChanged(before, after, key, s) ==
    /\ after.kind = before.kind
    /\ Len(after.items) = Len(before.items)
    /\ \A j \in 1..Len(before.items) :
        /\ after.items[j].key = before.items[j].key
        /\ after.items[j].val =
              IF before.items[j].key = key THEN Str(s) ELSE before.items[j].val

\* the key a colon-split shape reads and rewrites
SplitKey(n) == IF Shape(n) = "image-only" THEN "image" ELSE "repository"

\* the identifier the table composes for a node of a recognized shape
Identifier(n) ==
    CASE Shape(n) = "image-only" -> BaseOf(Get(n, "image").str)
      [] Shape(n) = "repository-only" -> BaseOf(Get(n, "repository").str)
      [] Shape(n) = "image+tag" -> Get(n, "image").str
      [] Shape(n) = "repository+tag" -> Get(n, "repository").str
      [] Shape(n) = "repository+registry" ->
            Joined(Get(n, "registry").str, BaseOf(Get(n, "repository").str))
      [] Shape(n) = "repository+tag+registry" ->
            Joined(Get(n, "registry").str, Get(n, "repository").str)

ColonShapes == {"image-only", "repository-only", "repository+registry"}
TagShapes == {"image+tag", "repository+tag", "repository+tag+registry"}

(***************************************************************************)
(* C1                                                                      *)
(***************************************************************************)
\* C1: with a non-empty version the core never raises: no walk ends in an
\* exception and every process_image call ends in NotFound, Found or Updated.
C1_NeverRaises ==
    version # <<>> =>
        /\ pc # "raised"
        /\ \A e \in Entries : e.state \in {NotFound, Found, Updated}

(***************************************************************************)
(* C2                                                                      *)
(***************************************************************************)
Scenario3Before ==
    Map(<<KV("image", Map(<<KV("repository", Str(<<"app">>)),
                            KV("registry", Str(<<"reg.io">>))>>))>>)

Scenario3After ==
    Map(<<KV("image", Map(<<KV("repository", Str(<<"app", ":", "2.0">>)),
                            KV("registry", Str(<<"reg.io">>))>>))>>)

\* C2: a candidate of a colon-split shape whose identifier (base, or registry/base)
\* is a target and whose trimmed tag differs from version ends Updated with exactly
\* the split string rewritten to base:version; and scenario 3 ends Updated with
\* repository "app:2.0" and tally (1,1).
C2_ColonShapesRewritten ==
    /\ \A e \in Entries :
          (/\ Shape(e.before) \in ColonShapes
           /\ Identifier(e.before) \in images
           /\ strip(TagOf(Get(e.before, SplitKey(e.before)).str)) # version)
          => /\ e.state = Updated
             /\ OnlyChanged(e.before, e.after, SplitKey(e.before),
                            BaseOf(Get(e.before, SplitKey(e.before)).str)
                                \o <<":">> \o version)
    /\ (/\ runs = 1
        /\ prev = Scenario3Before
        /\ images = {<<"reg.io", "/", "app">>}
        /\ version = <<"2.0">>)
       => /\ pc = "walked"
          /\ values_map = Scenario3After
          /\ found = 1
          /\ updated = 1

\* the colon-split rule where the string does hold a ':' (not a claim: the part of
\* C2 the code meets)
ColonShapesRewrittenWhenColon ==
    \A e \in Entries :
        (/\ Shape(e.before) \in ColonShapes
         /\ HasColon(Get(e.before, SplitKey(e.before)).str)
         /\ Identifier(e.before) \in images
         /\ strip(TagOf(Get(e.before, SplitKey(e.before)).str)) # version)
        => /\ e.state = Updated
           /\ OnlyChanged(e.before, e.after, SplitKey(e.before),
                          BaseOf(Get(e.before, SplitKey(e.before)).str)
                              \o <<":">> \o version)

(***************************************************************************)
(* C3                                                                      *)
(***************************************************************************)
\* C3: a candidate of a tag-field shape whose identifier (image, repository, or
\* registry/repository) is a target ends Found and untouched when its trimmed tag
\* equals version, and ends Updated with tag set to exactly version and every other
\* key as it was when the trimmed tag differs.
C3_TagShapes ==
    \A e \in Entries :
        (Shape(e.before) \in TagShapes /\ Identifier(e.before) \in images)
        => IF strip(Get(e.before, "tag").str) = version
           THEN e.state = Found /\ e.after = e.before
           ELSE e.state = Updated /\ OnlyChanged(e.before, e.after, "tag", version)

\* a targeted repository+tag+registry candidate with a trailing slash on its
\* registry was updated: its tag now is the version
C3_Witness ==
    /\ \E e \in Entries :
          /\ Shape(e.before) = "repository+tag+registry"
          /\ Get(e.before, "registry").str = <<"reg.io", "/">>
          /\ e.state = Updated
          /\ Get(e.after, "tag").str = version
    /\ version = <<"1.0">>

(***************************************************************************)
(* C4                                                                      *)
(***************************************************************************)
AllFour(n) ==
    Present(n, "image") /\ Present(n, "repository") /\ Present(n, "registry")
        /\ Present(n, "tag")

\* C4 as stated: a candidate that matches no row of the table, or that carries all
\* four attributes, ends NotFound and unchanged.
C4_UnrecognizedIncludingAllFour ==
    \A e \in Entries :
        (Shape(e.before) = "none" \/ AllFour(e.before))
        => e.state = NotFound /\ e.after = e.before

\* C4 (amended): a candidate that matches no row of the shape table (registry
\* alone, tag alone, none present, image with registry, ...) ends NotFound and
\* unchanged, for every target set and version.
C4_Unrecognized ==
    \A e \in Entries : Shape(e.before) = "none" => e.state = NotFound /\ e.after = e.before

\* a candidate with a targeted image, a registry and an empty repository string
\* (image with registry: no row of the table) was classified NotFound
C4_Witness ==
    \E e \in Entries :
        /\ Shape(e.before) = "none"
        /\ Present(e.before, "image")
        /\ Present(e.before, "registry")
        /\ HasKey(e.before, "repository")
        /\ BaseOf(Get(e.before, "image").str) \in images
        /\ e.state = NotFound

(***************************************************************************)
(* C5                                                                      *)
(***************************************************************************)
\* C5 as stated: whenever a walk follows a completed walk with the same targets
\* and version, it returns, updates nothing and leaves the tree as it found it.
C5_Idempotent ==
    runs >= 2 => pc = "walked" /\ updated = 0 /\ values_map = prev

\* a version the tag comparison can meet again: non-empty, no surrounding
\* whitespace, no ':'
PlainVersion == version # <<>> /\ strip(version) = version /\ ~HasColon(version)

\* C5 (amended): for a non-empty version without surrounding whitespace and
\* without ':', a walk that follows a completed walk with the same targets and
\* version returns, updates nothing and leaves the tree as it found it.
C5_IdempotentPlainVersion ==
    (runs >= 2 /\ PlainVersion) => pc = "walked" /\ updated = 0 /\ values_map = prev

\* the second walk found a reference the first walk had rewritten to app:2.0
C5_Witness ==
    /\ runs = 2
    /\ pc = "walked"
    /\ version = <<"2.0">>
    /\ found > 0
    /\ updated = 0
    /\ \E e \in Entries :
          /\ Shape(e.before) = "image-only"
          /\ Get(e.before, "image").str = <<"app", ":", "2.0">>
          /\ e.state = Found

(***************************************************************************)
(* Paths of a tree                                                         *)
(***************************************************************************)
IsProperPrefix(p, q) == Len(p) < Len(q) /\ SubSeq(q, 1, Len(p)) = p

\* the node a path of keys leads to
RECURSIVE NodeAt(_, _)
NodeAt(node, path) ==
    IF path = <<>> THEN node ELSE NodeAt(Get(node, Head(path)), Tail(path))

\* the paths of all dicts of a tree, those inside sequences included
RECURSIVE MapPaths(_, _)
MapPaths(node, path) ==
    (IF node.kind = "map" THEN {path} ELSE {})
    \cup UNION { MapPaths(node.items[j].val, Append(path, node.items[j].key)) :
                    j \in 1..Len(node.items) }

\* a tree with every string blanked: its keys, their order and the kinds of values
RECURSIVE Skeleton(_)
Skeleton(node) ==
    [kind |-> node.kind, str |-> <<>>,
     items |-> [j \in 1..Len(node.items) |->
                   KV(node.items[j].key, Skeleton(node.items[j].val))]]

\* the keys of a dict whose value differs between two trees of the same skeleton
ChangedKeys(before, after) ==
    { before.items[j].key : j \in { k \in 1..Len(before.items) :
          before.items[k].val.kind = "str" /\ before.items[k].val # after.items[k].val } }

(***************************************************************************)
(* C6                                                                      *)
(***************************************************************************)
\* C6: a walk adds, removes and reorders no key; in each dict it changes the value
\* of at most one key, one of image, repository and tag, and only if the dict is a
\* candidate with outcome Updated; a candidate that is not Updated is unchanged.
C6_Frame ==
    runs >= 1 =>
        /\ Skeleton(values_map) = Skeleton(prev)
        /\ \A p \in MapPaths(prev, <<>>) :
              LET changed == ChangedKeys(NodeAt(prev, p), NodeAt(values_map, p))
              IN  /\ Cardinality(changed) <= 1
                  /\ changed \subseteq {"image", "repository", "tag"}
                  /\ changed # {} => \E e \in Entries : e.path = p /\ e.state = Updated
        /\ \A e \in Entries : e.state # Updated => e.after = e.before

\* the frame of a walk with a non-empty version (not a claim: the part of C6 the
\* code meets)
FrameNonEmptyVersion == version # <<>> => C6_Frame

(***************************************************************************)
(* C7                                                                      *)
(***************************************************************************)
\* C7: after a walk, no dict was classified twice, found is the number of distinct
\* candidates with outcome Found or Updated, updated is the number of distinct
\* candidates with outcome Updated, and 0 <= updated <= found <= number of dicts.
C7_TallyExact ==
    Returned =>
        /\ \A i, j \in 1..Len(log) : log[i].path = log[j].path => i = j
        /\ found = Cardinality({e.path : e \in {x \in Entries : x.state \in {Found, Updated}}})
        /\ updated = Cardinality({e.path : e \in {x \in Entries : x.state = Updated}})
        /\ updated <= found
        /\ found <= Cardinality(MapPaths(prev, <<>>))

\* the tally counts the calls of process_image (not a claim: what the code does)
TallyCountsCalls ==
    Returned =>
        /\ found = Cardinality({i \in 1..Len(log) : log[i].state \in {Found, Updated}})
        /\ updated = Cardinality({i \in 1..Len(log) : log[i].state = Updated})

(***************************************************************************)
(* C9                                                                      *)
(***************************************************************************)
StringImage(node) == HasKey(node, "image") /\ Get(node, "image").kind = "str"
MappingImage(node) == HasKey(node, "image") /\ Get(node, "image").kind = "map"

\* the dicts a walk must visit: the root, and every dict held under a key of a
\* visited dict that has no string-valued image key
RECURSIVE Visits(_, _)
Visits(node, path) ==
    {path} \cup
    (IF StringImage(node) THEN {}
     ELSE UNION { Visits(node.items[j].val, Append(path, node.items[j].key)) :
                     j \in {k \in 1..Len(node.items) : node.items[k].val.kind = "map"} })

\* C9: a dict with a string-valued image key is classified once and none of its
\* descendants is visited or classified; a dict with a mapping-valued image key
\* has that mapping classified and then every mapping-valued key visited;
\* sequences are never entered.
C9_ShortCircuit ==
    runs >= 1 =>
        /\ \A i, j \in 1..Len(calls) : calls[i] = calls[j] => i = j
        /\ {calls[i] : i \in 1..Len(calls)} \subseteq Visits(prev, <<>>)
        /\ Returned => {calls[i] : i \in 1..Len(calls)} = Visits(prev, <<>>)
        /\ \A i \in 1..Len(calls) :
              LET p == calls[i]
                  node == NodeAt(prev, p)
              IN  /\ StringImage(node) =>
                        /\ Cardinality({k \in 1..Len(log) :
                                           log[k].path = p /\ log[k].via = "self"}) = 1
                        /\ \A e \in Entries : ~IsProperPrefix(p, e.path)
                        /\ \A k \in 1..Len(calls) : ~IsProperPrefix(p, calls[k])
                        /\ \A q \in MapPaths(prev, <<>>) :
                              IsProperPrefix(p, q) => NodeAt(values_map, q) = NodeAt(prev, q)
                  /\ (MappingImage(node) /\ Returned) =>
                        /\ \E e \in Entries : e.path = Append(p, "image") /\ e.via = "nested"
                        /\ \A j \in 1..Len(node.items) :
                              node.items[j].val.kind = "map" =>
                                 \E k \in 1..Len(calls) : calls[k] = Append(p, node.items[j].key)
        /\ \A e \in Entries : e.via = "self" => StringImage(e.before)
        /\ StringImage(prev) => Len(calls) = 1 /\ Len(log) = 1 /\ found <= 1 /\ updated <= 1

\* a document whose root has a string image was walked: one classification, and
\* the targeted reference in its sibling mapping was left at its old tag
C9_Witness ==
    /\ runs = 1
    /\ pc = "walked"
    /\ StringImage(prev)
    /\ HasKey(prev, "sub")
    /\ Get(prev, "sub") = Map(<<KV("image", Str(<<"app", ":", "1.0">>))>>)
    /\ images = {<<"app">>}
    /\ version = <<"2.0">>
    /\ found = 1
    /\ updated = 1
    /\ Len(log) = 1

(***************************************************************************)
(* C8                                                                      *)
(***************************************************************************)
ValuesSaved == \E i \in 1..Len(saves) : saves[i] = "values"
ChartSaved == \E i \in 1..Len(saves) : saves[i] = "chart"
NoTags == "BadParameter: no image tags found"
NoRelease == "BadParameter: no changes found in chart, app or image versions"
PastReleaseCheck == pc = "done" \/ error = NoRelease

\* C8: the values file is saved exactly when the walk returned updated > 0, and
\* holds the walked tree; a walk with found > 0 and updated = 0 saves nothing and
\* raises nothing; a walk with found = 0 saves nothing and fails with 'no image
\* tags found' exactly when error-no-tags is set; the release check fails with 'no
\* changes found' exactly when error-no-release is set and no file was saved.
C8_CallerOutcome ==
    /\ ValuesSaved <=> (Returned /\ updated > 0)
    /\ ValuesSaved => values_file = values_map /\ saves[Len(saves)] = "values"
    /\ ~ValuesSaved => (runs = 0 \/ values_file = prev)
    /\ (runs >= 1 /\ pc # "failed") => Returned
    /\ (runs >= 1 /\ error # Raised /\ updated = 0 /\ found > 0) =>
          (pc \in {"release", "done"} \/ error = NoRelease)
    /\ (runs >= 1 /\ error # Raised /\ found = 0) => (error = NoTags <=> opts.error_no_tags)
    /\ error = NoTags => (runs >= 1 /\ found = 0)
    /\ PastReleaseCheck =>
          (error = NoRelease <=> (opts.error_no_release /\ ~ChartSaved /\ ~ValuesSaved))
    /\ release_found <=> (ChartSaved \/ ValuesSaved)

\* bump ended well with error-no-release set, having saved the values file only
C8_Witness ==
    /\ pc = "done"
    /\ opts.error_no_release
    /\ saves = <<"values">>
    /\ updated > 0

(***************************************************************************)
(* C10                                                                     *)
(***************************************************************************)
NoImageVersion ==
    /\ ~Truthy(opts.image_version)
    /\ opts.image_version_file = None \/ strip(opts.image_version_file.str) = <<>>

\* C10: with --image given, no image version from the option or the file, and
\* error-no-image-version false, the image phase is skipped: no walk, no write of
\* the values file, and no failure caused by the missing version.
C10_ImagePhaseSkipped ==
    (opts.image # None /\ NoImageVersion /\ ~opts.error_no_image_version) =>
        /\ runs = 0
        /\ ~ValuesSaved
        /\ error \notin {"AttributeError", "MissingParameter: image-version", Raised, NoTags}

\* the missing image version fails bump when error-no-image-version is set (not a
\* claim: the part of C10 the code meets)
MissingImageVersionFails ==
    (opts.image # None /\ NoImageVersion /\ opts.error_no_image_version
        /\ pc \notin {"chart_version", "app_version", "images"}
        /\ error \notin {"MissingParameter: chart-version", "MissingParameter: app-version"})
    => error = "MissingParameter: image-version"

====
